---- MODULE Spec2Model ----
(***************************************************************************)
(* Model of scripts/patch_wasm_table.py: the LEB128 codec, the section     *)
(* walker patch_wasm_file with its table and export patchers, and the      *)
(* driver loop of main.  Buffers are sequences of bytes (0..255); Python   *)
(* offset o is position o+1 of the sequence.                               *)
(***************************************************************************)
EXTENDS Integers, Sequences, FiniteSets, TLC

VARIABLES
    files,                  \* storage: the candidate files, in iteration order
    run,                    \* which invocation of main this is
    cand,                   \* position of the current candidate in files
    pc,                     \* "main", "walk", "table", "export", "flush", "exit"
    data, mutable,          \* locals of patch_wasm_file
    off, section_id, payload_off, payload_end,
    p, count, table_idx,
    patched, externref_table_index,
    any_patched, status, err,
    results, prev,          \* outcome of each call of this run / of the run before
    before, touched,        \* file content at the start of the call, offsets of patched fields
    writes, modsecs, modified, skipped

vars == <<files, run, cand, pc, data, mutable, off, section_id, payload_off,
          payload_end, p, count, table_idx, patched, externref_table_index,
          any_patched, status, err, results, prev, before, touched, writes,
          modsecs, modified, skipped>>

\* ------------------------------------------------------------------ bounds
MaxTables == 2
MaxExports == 1
MaxSections == 3
MaxFiles == 2
MaxRuns == 2

\* ------------------------------------------------------- program constants
None == -1
MaxShift == 35
GrowBy == 4
ExternrefType == 111
TableSectionId == 4
ExportSectionId == 7
TableKind == 1
HeaderLen == 8
ErrorStatus == 2

Magic == <<0, 97, 115, 109>>

\* "__wbindgen_externrefs"
ExternrefsName ==
    <<95, 95, 119, 98, 105, 110, 100, 103, 101, 110, 95,
      101, 120, 116, 101, 114, 110, 114, 101, 102, 115>>

\* ------------------------------------------------------------------- codec
Shl(x, s) == IF x = 0 THEN 0 ELSE x * 2^s

RECURSIVE ReadLoop(_, _, _, _, _)
ReadLoop(d, o, n, res, shift) ==
    IF o + n >= Len(d)
    THEN [ok |-> FALSE, err |-> "unexpected EOF while reading varuint"]
    ELSE LET b == d[o + n + 1]
             res2 == res + Shl(b % 128, shift)
         IN  IF b < 128
             THEN [ok |-> TRUE, val |-> res2, n |-> n + 1]
             ELSE IF shift + 7 > MaxShift
                  THEN [ok |-> FALSE, err |-> "varuint too large"]
                  ELSE ReadLoop(d, o, n + 1, res2, shift + 7)

_read_varuint(d, o) == ReadLoop(d, o, 0, 0, 0)

RECURSIVE MinimalLeb(_)
MinimalLeb(v) == IF v < 128 THEN <<v>> ELSE <<128 + (v % 128)>> \o MinimalLeb(v \div 128)

\* encodes in as few bytes as the value needs
EncodeMinimalWidth(value, width) == [ok |-> TRUE, bytes |-> MinimalLeb(value)]

_encode_varuint_fixed_width(value, width) ==
    IF value \div (128^width) # 0
    THEN [ok |-> FALSE, err |-> "value does not fit in fixed width"]
    ELSE [ok |-> TRUE,
          bytes |-> [i \in 1..width |->
                        ((value \div (128^(i - 1))) % 128)
                        + (IF i # width THEN 128 ELSE 0)]]

\* m[o : o + n] = enc
Splice(m, o, n, enc) ==
    SubSeq(m, 1, o) \o enc \o SubSeq(m, o + n + 1, Len(m))

\* data[a:b] with Python's clamping of slice bounds
Slice(d, a, b) ==
    LET hi == IF b > Len(d) THEN Len(d) ELSE b
    IN  IF a >= hi THEN <<>> ELSE SubSeq(d, a + 1, hi)


\* --------------------------------------------------------- table patcher
\* One table descriptor read from data at offset pp (lines 93-109).
ParseTable(d, pp) ==
    LET elem == d[pp + 1]
        fl == _read_varuint(d, pp + 1)
    IN  IF ~fl.ok THEN fl
        ELSE LET ini == _read_varuint(d, pp + 1 + fl.n)
             IN  IF ~ini.ok THEN ini
                 ELSE LET q == pp + 1 + fl.n + ini.n
                          has_max == (fl.val % 2) = 1
                      IN  IF ~has_max
                          THEN [ok |-> TRUE, elem_type |-> elem, flags |-> fl.val,
                                initial |-> ini.val, has_max |-> FALSE,
                                max_off |-> None, max_val |-> None, max_n |-> None,
                                p |-> q]
                          ELSE LET mx == _read_varuint(d, q)
                               IN  IF ~mx.ok THEN mx
                                   ELSE [ok |-> TRUE, elem_type |-> elem, flags |-> fl.val,
                                         initial |-> ini.val, has_max |-> TRUE,
                                         max_off |-> q, max_val |-> mx.val, max_n |-> mx.n,
                                         p |-> q + mx.n]

\* records every externref table, not only the first
RecordLastIndex(elem_type, ext, tidx) ==
    IF elem_type = ExternrefType THEN tidx ELSE ext

RecordIndex(elem_type, ext, tidx) ==
    IF elem_type = ExternrefType /\ ext = None THEN tidx ELSE ext

\* threshold off by one
NeedsPatchInclusive(elem_type, has_max, max_val, initial) ==
    /\ elem_type = ExternrefType
    /\ has_max
    /\ max_val <= initial + GrowBy

NeedsPatch(elem_type, has_max, max_val, initial) ==
    /\ elem_type = ExternrefType
    /\ has_max
    /\ max_val < initial + GrowBy

NewMax(max_n) == 2^(7 * max_n) - 1

\* One iteration of the table loop (lines 90-128).
TableStep(d, m, pp, pend, tidx, ext) ==
    IF pp >= pend THEN [ok |-> FALSE, err |-> "table section truncated"]
    ELSE LET t == ParseTable(d, pp)
         IN  IF ~t.ok THEN t
             ELSE LET ext2 == RecordIndex(t.elem_type, ext, tidx)
                  IN  IF NeedsPatch(t.elem_type, t.has_max, t.max_val, t.initial)
                      THEN LET enc == _encode_varuint_fixed_width(NewMax(t.max_n), t.max_n)
                           IN  IF ~enc.ok THEN enc
                               ELSE [ok |-> TRUE, p |-> t.p, ext |-> ext2, hit |-> TRUE,
                                     m |-> Splice(m, t.max_off, t.max_n, enc.bytes),
                                     range |-> (t.max_off + 1)..(t.max_off + t.max_n)]
                      ELSE [ok |-> TRUE, p |-> t.p, ext |-> ext2, hit |-> FALSE,
                            m |-> m, range |-> {}]

\* -------------------------------------------------------- export patcher
\* One export descriptor read from data at offset pp (lines 143-152).
ParseExport(d, pp) ==
    LET nl == _read_varuint(d, pp)
    IN  IF ~nl.ok THEN nl
        ELSE LET q == pp + nl.n
                 name == Slice(d, q, q + nl.val)
                 k == q + nl.val
             IN  IF k >= Len(d) THEN [ok |-> FALSE, err |-> "index out of range"]
                 ELSE LET ix == _read_varuint(d, k + 1)
                      IN  IF ~ix.ok THEN ix
                          ELSE [ok |-> TRUE, name |-> name, kind |-> d[k + 1],
                                idx_off |-> k + 1, idx_val |-> ix.val, idx_n |-> ix.n,
                                p |-> k + 1 + ix.n]

ExportNeedsPatch(name, kind, idx_val, ext) ==
    /\ name = ExternrefsName
    /\ kind = TableKind
    /\ idx_val # ext

\* One iteration of the export loop (lines 142-161).
ExportStep(d, m, pp, ext) ==
    LET e == ParseExport(d, pp)
    IN  IF ~e.ok THEN e
        ELSE IF ExportNeedsPatch(e.name, e.kind, e.idx_val, ext)
             THEN LET enc == _encode_varuint_fixed_width(ext, e.idx_n)
                  IN  IF ~enc.ok THEN enc
                      ELSE [ok |-> TRUE, p |-> e.p, hit |-> TRUE,
                            m |-> Splice(m, e.idx_off, e.idx_n, enc.bytes),
                            range |-> (e.idx_off + 1)..(e.idx_off + e.idx_n)]
             ELSE [ok |-> TRUE, p |-> e.p, hit |-> FALSE, m |-> m, range |-> {}]

\* ------------------------------------------------------- section walker
\* Section header at offset o (lines 68-75).
ReadSection(d, o) ==
    LET sz == _read_varuint(d, o + 1)
    IN  IF ~sz.ok THEN sz
        ELSE IF o + 1 + sz.n + sz.val > Len(d)
             THEN [ok |-> FALSE, err |-> "invalid section size"]
             ELSE [ok |-> TRUE, id |-> d[o + 1],
                   payload_off |-> o + 1 + sz.n,
                   payload_end |-> o + 1 + sz.n + sz.val]

IsModule(d) == Len(d) >= HeaderLen /\ SubSeq(d, 1, 4) = Magic

\* reports the error and goes on with the next candidate
CatchAndContinue(c) == [pc |-> "main", cand |-> c + 1, status |-> ErrorStatus]

\* except Exception in main (lines 194-196): report and return 2.
CatchException(c) == [pc |-> "exit", cand |-> c, status |-> ErrorStatus]


\* ----------------------------------------------------------------- inputs
RECURSIVE Leb(_)
Leb(v) == IF v < 128 THEN <<v>> ELSE <<128 + (v % 128)>> \o Leb(v \div 128)

RECURSIVE Concat(_)
Concat(ss) == IF ss = <<>> THEN <<>> ELSE Head(ss) \o Concat(Tail(ss))

SeqsUpTo(S, lo, hi) == UNION {[1..k -> S] : k \in lo..hi}

Header == Magic \o <<1, 0, 0, 0>>

Section(id, payload) == <<id>> \o Leb(Len(payload)) \o payload

Vec(items) == Leb(Len(items)) \o Concat(items)

FuncrefNoMax == <<112, 0, 4>>
Externref44 == <<111, 1, 4, 4>>

TableDescs ==
    { FuncrefNoMax,              \* funcref, no maximum
      Externref44,               \* externref, maximum = initial
      <<111, 1, 4, 7>>,          \* externref, maximum = initial + 3
      <<111, 1, 4, 8>>,          \* externref, maximum = initial + 4
      <<111, 1, 125, 125>>,      \* externref, initial + 4 beyond one byte
      <<111, 1, 4, 132, 0>>,     \* externref, maximum 4 in two bytes
      <<112, 1, 4, 4>> }         \* funcref, maximum = initial

TableSections ==
    {Section(TableSectionId, Vec(ts)) : ts \in SeqsUpTo(TableDescs, 1, MaxTables)}

Export(name, kind, idx) == Leb(Len(name)) \o name \o <<kind>> \o idx

ExportDescs ==
    { Export(ExternrefsName, 1, <<0>>),
      Export(ExternrefsName, 1, <<1>>),
      Export(ExternrefsName, 0, <<0>>),
      Export(<<109, 101, 109>>, 1, <<0>>),
      Export(ExternrefsName, 1, <<128, 0>>) }

ExportSections ==
    {Section(ExportSectionId, Vec(es)) : es \in SeqsUpTo(ExportDescs, 1, MaxExports)}

\* the second section's bytes read as limits (flags 1, initial 2, maximum 3)
TableOverrun == <<4, 2, 1, 111>>
CustomSection == <<1, 2, 3, 0>>
\* the following section's bytes read as an export descriptor
ExportOverrun == <<7, 1, 1>>
ExportVictim == <<21>> \o ExternrefsName \o <<1, 0>> \o [i \in 1..73 |-> 0]

CoreChunks ==
    { Section(TableSectionId, Vec(<<Externref44>>)),
      Section(TableSectionId, Vec(<<FuncrefNoMax, <<111, 1, 4, 8>>>>)),
      Section(ExportSectionId, Vec(<<Export(ExternrefsName, 1, <<0>>)>>)),
      CustomSection,
      TableOverrun,
      ExportOverrun,
      ExportVictim,
      <<0, 5, 0>>,                            \* size past the end
      <<0, 128, 128, 128, 128, 0>>,           \* size 0 in five bytes
      <<0, 128, 128, 128, 128, 128, 0>>,      \* size 0 in six bytes
      <<0, 128, 128, 128, 128, 128, 128, 0>>, \* seven-byte size
      <<4, 1, 1>>,                            \* count 1, no descriptor
      <<0, 128>> }                            \* size cut off

\* 128 funcref tables, then the externref table at index 128
BigTableSection ==
    Section(TableSectionId,
            Leb(129) \o [i \in 1..384 |-> IF i % 3 = 1 THEN 112 ELSE 0] \o Externref44)

Modules ==
    {Header \o Concat(cs) : cs \in SeqsUpTo(CoreChunks, 0, MaxSections)}
    \cup {Header \o t \o e : t \in TableSections, e \in ExportSections}
    \cup {Header \o BigTableSection \o e : e \in ExportSections}
    \cup { <<>>, Magic, <<1, 97, 115, 109, 1, 0, 0, 0>> }

DriverModules ==
    { Header \o Section(TableSectionId, Vec(<<Externref44>>)),
      Header \o Section(TableSectionId, Vec(<<FuncrefNoMax>>)),
      Header \o Section(TableSectionId, Vec(<<Externref44>>)) \o <<0, 5, 0>>,
      <<1, 97, 115, 109, 1, 0, 0, 0>> }

Inputs ==
    {<<m>> : m \in Modules} \cup SeqsUpTo(DriverModules, 2, MaxFiles)

\* ------------------------------------------------------------------ state
locals == <<data, mutable, off, section_id, payload_off, payload_end,
            p, count, table_idx, patched, externref_table_index>>
ghosts == <<touched, writes, modsecs, modified, skipped>>

Init ==
    /\ files \in Inputs
    /\ run = 1
    /\ cand = 1
    /\ pc = "main"
    /\ data = <<>> /\ mutable = <<>>
    /\ off = 0 /\ section_id = 0 /\ payload_off = 0 /\ payload_end = 0
    /\ p = 0 /\ count = 0 /\ table_idx = 0
    /\ patched = FALSE
    /\ externref_table_index = None
    /\ any_patched = FALSE
    /\ status = None
    /\ err = ""
    /\ results = <<>> /\ prev = <<>>
    /\ before = <<>> /\ touched = {}
    /\ writes = 0 /\ modsecs = 0 /\ modified = FALSE /\ skipped = 0

Raise(msg) ==
    LET h == CatchException(cand)
    IN  /\ pc' = h.pc
        /\ cand' = h.cand
        /\ status' = h.status
        /\ err' = msg
        /\ results' = Append(results, "raised")

\* main calls patch_wasm_file on the next candidate (lines 188-190, 58-65).
Call ==
    /\ pc = "main"
    /\ cand <= Len(files)
    /\ before' = files[cand]
    /\ touched' = {} /\ writes' = 0 /\ modsecs' = 0 /\ modified' = FALSE /\ skipped' = 0
    /\ IF ~IsModule(files[cand])
       THEN /\ Raise("not a wasm module")
            /\ UNCHANGED locals
       ELSE /\ pc' = "walk"
            /\ data' = files[cand]
            /\ off' = HeaderLen
            /\ patched' = FALSE
            /\ externref_table_index' = None
            /\ UNCHANGED <<mutable, section_id, payload_off, payload_end, p, count,
                           table_idx, cand, status, err, results>>
    /\ UNCHANGED <<files, run, any_patched, prev>>

\* Top of the while loop: section header and dispatch (lines 67-88, 130-140).
SectionHeader ==
    /\ pc = "walk"
    /\ off < Len(data)
    /\ LET s == ReadSection(data, off)
       IN  IF ~s.ok
           THEN Raise(s.err) /\ UNCHANGED <<locals, ghosts>>
           ELSE IF s.id \notin {TableSectionId, ExportSectionId}
           THEN /\ off' = s.payload_end
                /\ section_id' = s.id
                /\ payload_off' = s.payload_off
                /\ payload_end' = s.payload_end
                /\ UNCHANGED <<pc, cand, status, err, results, data, mutable, p, count,
                               table_idx, patched, externref_table_index, ghosts>>
           ELSE IF s.id = ExportSectionId /\ externref_table_index = None
           THEN /\ off' = s.payload_end
                /\ section_id' = s.id
                /\ payload_off' = s.payload_off
                /\ payload_end' = s.payload_end
                /\ mutable' = data
                /\ skipped' = skipped + 1
                /\ UNCHANGED <<pc, cand, status, err, results, data, p, count,
                               table_idx, patched, externref_table_index,
                               touched, writes, modsecs, modified>>
           ELSE LET c == _read_varuint(data, s.payload_off)
                IN  IF ~c.ok
                    THEN Raise(c.err) /\ UNCHANGED <<locals, ghosts>>
                    ELSE /\ section_id' = s.id
                         /\ payload_off' = s.payload_off
                         /\ payload_end' = s.payload_end
                         /\ mutable' = data
                         /\ p' = s.payload_off + c.n
                         /\ count' = c.val
                         /\ table_idx' = 0
                         /\ modified' = FALSE
                         /\ pc' = IF c.val = 0 THEN "flush"
                                  ELSE IF s.id = TableSectionId THEN "table"
                                  ELSE "export"
                         /\ UNCHANGED <<cand, status, err, results, data, off, patched,
                                        externref_table_index, touched, writes,
                                        modsecs, skipped>>
    /\ UNCHANGED <<files, run, any_patched, prev, before>>

\* One pass of the table loop body (lines 90-128).
TableEntry ==
    /\ pc = "table"
    /\ LET s == TableStep(data, mutable, p, payload_end, table_idx, externref_table_index)
       IN  IF ~s.ok
           THEN Raise(s.err) /\ UNCHANGED <<locals, ghosts>>
           ELSE /\ p' = s.p
                /\ mutable' = s.m
                /\ externref_table_index' = s.ext
                /\ patched' = (patched \/ s.hit)
                /\ modified' = (modified \/ s.hit)
                /\ touched' = touched \cup s.range
                /\ table_idx' = table_idx + 1
                /\ pc' = IF table_idx + 1 = count THEN "flush" ELSE "table"
                /\ UNCHANGED <<cand, status, err, results, data, off, section_id,
                               payload_off, payload_end, count, writes, modsecs, skipped>>
    /\ UNCHANGED <<files, run, any_patched, prev, before>>

\* One pass of the export loop body (lines 142-161); table_idx counts the
\* passes of this loop as well.
ExportEntry ==
    /\ pc = "export"
    /\ LET s == ExportStep(data, mutable, p, externref_table_index)
       IN  IF ~s.ok
           THEN Raise(s.err) /\ UNCHANGED <<locals, ghosts>>
           ELSE /\ p' = s.p
                /\ mutable' = s.m
                /\ patched' = (patched \/ s.hit)
                /\ modified' = (modified \/ s.hit)
                /\ touched' = touched \cup s.range
                /\ table_idx' = table_idx + 1
                /\ pc' = IF table_idx + 1 = count THEN "flush" ELSE "export"
                /\ UNCHANGED <<cand, status, err, results, data, off, section_id,
                               payload_off, payload_end, count, externref_table_index,
                               writes, modsecs, skipped>>
    /\ UNCHANGED <<files, run, any_patched, prev, before>>

\* End of a table or export section (lines 163-167).
SectionEnd ==
    /\ pc = "flush"
    /\ IF patched
       THEN /\ data' = mutable
            /\ files' = [files EXCEPT ![cand] = mutable]
            /\ writes' = writes + 1
       ELSE UNCHANGED <<data, files, writes>>
    /\ modsecs' = modsecs + (IF modified THEN 1 ELSE 0)
    /\ off' = payload_end
    /\ pc' = "walk"
    /\ UNCHANGED <<run, cand, mutable, section_id, payload_off, payload_end, p, count,
                   table_idx, patched, externref_table_index, any_patched, status, err,
                   results, prev, before, touched, modified, skipped>>

\* The while loop ends; patch_wasm_file returns to main (lines 67, 169, 190-193).
Return ==
    /\ pc = "walk"
    /\ off >= Len(data)
    /\ results' = Append(results, IF patched THEN "True" ELSE "False")
    /\ any_patched' = (any_patched \/ patched)
    /\ cand' = cand + 1
    /\ pc' = "main"
    /\ UNCHANGED <<files, run, locals, status, err, prev, before, ghosts>>

\* No candidate is left (lines 188, 198-200).
MainDone ==
    /\ pc = "main"
    /\ cand > Len(files)
    /\ status' = 0
    /\ pc' = "exit"
    /\ UNCHANGED <<files, run, cand, locals, any_patched, err, results, prev, before, ghosts>>

\* The script is run again on the same path (lines 182-187, 203-204).
Invoke ==
    /\ pc = "exit"
    /\ run < MaxRuns
    /\ run' = run + 1
    /\ cand' = 1
    /\ pc' = "main"
    /\ status' = None
    /\ err' = ""
    /\ any_patched' = FALSE
    /\ prev' = results
    /\ results' = <<>>
    /\ UNCHANGED <<files, locals, before, ghosts>>

Next ==
    \/ Call
    \/ SectionHeader
    \/ TableEntry
    \/ ExportEntry
    \/ SectionEnd
    \/ Return
    \/ MainDone
    \/ Invoke

Spec == Init /\ [][Next]_vars


\* ----------------------------------------------------------------- claims
LastResult == IF results = <<>> THEN "none" ELSE results[Len(results)]
Returned == pc \in {"main", "exit"} /\ LastResult \in {"True", "False"}
Failed == pc \in {"main", "exit"} /\ LastResult = "raised"

\* C1: after a call of patch_wasm_file that completes, the file has the
\* length it had before the call and every byte outside the patched fields
\* (maximum of a patched table, index of a rewritten export) is the original
\* byte at that offset.
WidthPreserved ==
    Returned =>
        LET f == files[Len(results)]
        IN  /\ Len(f) = Len(before)
            /\ \A i \in 1..Len(f) : i \notin touched => f[i] = before[i]

WidthPreservedWitness ==
    /\ Returned
    /\ touched # {}
    /\ files[Len(results)] # before
    /\ \E i \in touched : files[Len(results)][i] # before[i]

\* C2: a second run on a file whose first run completed returns False and
\* does not write the file.
SecondRunIsNoOp ==
    (run >= 2 /\ Returned /\ Len(results) <= Len(prev)
        /\ prev[Len(results)] # "raised")
    => (LastResult = "False" /\ writes = 0)

\* C3: a table descriptor's maximum is replaced iff the element type is 0x6F,
\* flag bit 0 is set and maximum < initial + 4; the replaced field decodes to
\* 2^(7*w) - 1 in the same w bytes and nothing else changes; any other table
\* is left untouched.
ThresholdStep ==
    (pc = "table" /\ table_idx' = table_idx + 1) =>
        LET t == ParseTable(data, p)
            should == /\ t.elem_type = 111
                      /\ t.flags % 2 = 1
                      /\ t.max_val < t.initial + 4
        IN  IF should
            THEN LET r == _read_varuint(mutable', t.max_off)
                 IN  /\ r.ok
                     /\ r.val = 2^(7 * t.max_n) - 1
                     /\ r.n = t.max_n
                     /\ Len(mutable') = Len(mutable)
                     /\ \A i \in 1..Len(mutable) :
                            (i <= t.max_off \/ i > t.max_off + t.max_n)
                            => mutable'[i] = mutable[i]
                     /\ patched'
            ELSE mutable' = mutable /\ patched' = patched

ExportStepClaim ==
    pc = "export" =>
        LET e == ParseExport(data, p)
            ext == externref_table_index
        IN  e.ok =>
              IF /\ e.name = ExternrefsName
                 /\ e.kind = 1
                 /\ e.idx_val # ext
                 /\ ext < 2^(7 * e.idx_n)
              THEN /\ pc' # "exit"
                   /\ _read_varuint(mutable', e.idx_off)
                        = [ok |-> TRUE, val |-> ext, n |-> e.idx_n]
              ELSE /\ pc' # "exit"
                   /\ mutable' = mutable

ExportCorrect == [][ExportStepClaim]_vars

\* C5: when patch_wasm_file fails with a decode or structural error the file
\* on storage is what it was before the call.
NoPartialWrite == Failed => files[cand] = before

\* C6: a successful decode consumes at most 5 bytes, at every offset of every
\* buffer.
DecodeAtMostFive ==
    \A o \in 0..(Len(data) - 1) :
        LET r == _read_varuint(data, o) IN r.ok => r.n <= 5

WriteOncePerModifiedSection == writes = modsecs

\* C9: the externref table index is undefined until the first table with
\* element type 0x6F is visited, becomes that table's ordinal in its section,
\* and never changes afterwards; an export section met while it is undefined
\* is skipped with no byte modified.
IndexStep ==
    /\ (pc # "main" /\ externref_table_index # None)
          => externref_table_index' = externref_table_index
    /\ (pc # "main" /\ externref_table_index = None /\ externref_table_index' # None)
          => (pc = "table" /\ data[p + 1] = 111)
    /\ (pc = "table" /\ table_idx' = table_idx + 1 /\ data[p + 1] = 111
            /\ externref_table_index = None)
          => externref_table_index' = table_idx
    /\ (pc = "walk" /\ off < Len(data) /\ data[off + 1] = 7
            /\ externref_table_index = None /\ pc' # "exit")
          => /\ files' = files
             /\ data' = data
             /\ pc' = "walk"
             /\ off' = ReadSection(data, off).payload_end
             /\ externref_table_index' = None

IndexLifecycle == [][IndexStep]_vars

IndexLifecycleWitness ==
    /\ skipped > 0
    /\ externref_table_index = 1
    /\ pc = "flush"
    /\ files[cand] = before

\* C10: every byte replaced while a table or export section is handled lies
\* inside that section's payload [payload_off, payload_end).
PatchInsideSection ==
    pc \in {"table", "export", "flush"} =>
        \A i \in 1..Len(data) :
            mutable[i] # data[i] => (i > payload_off /\ i <= payload_end)

====
